---- MODULE Spec2Model ----
(***************************************************************************)
(* A model of UnsplashRandDownloader (unsplash_rand_downloader/            *)
(* _downloader.py): the manager thread (manage), the caller-facing         *)
(* get_random_image, setup/start/stop, and the environment they run in     *)
(* (the clock, the image directory on disk, the remote API).               *)
(*                                                                         *)
(* Granularity: one action per statement that reads or writes state shared *)
(* between the manager thread and a get_random_image caller; statements    *)
(* that touch only a thread's locals are folded into the next such step.   *)
(*                                                                         *)
(* Conventions                                                             *)
(*  - a path "{images_dir}/{topic}_{n}.jpg" is the pair <<topic, n>>;      *)
(*  - an image dict is a record [id, attribution, file_path, raw]; raw is  *)
(*    the identity of the response.raw object the dict holds (two dicts    *)
(*    compare equal in Python only if they hold the same raw object);      *)
(*  - the bytes of photo p are <<"bytes", p>>;                             *)
(*  - max_images_per_hour is a float in the code (quota / 2); the model    *)
(*    keeps twice its value, max_images_per_hour_x2, to stay in integers;  *)
(*  - time enters the code only as time() - t_first_down_image; the model  *)
(*    keeps that difference, t_since_first_down_image, in seconds.         *)
(***************************************************************************)
EXTENDS Integers, Sequences, FiniteSets, TLC

VARIABLES
    \* configuration and flags of the object
    max_api_requests_per_hour, max_images_per_hour_x2,
    setup_done, th_stop, connected,
    \* rate state
    api_requests_counter, first_image_in_this_hour, t_since_first_down_image,
    \* pool and derived counters
    topics, images, num_images, num_images_topic,
    \* per-path locks, the image directory, the session file
    file_locks, files, session,
    \* the manager thread: position and locals of manage()
    m_pc, first_iteration, m_topic, m_image, m_error,
    \* a caller inside get_random_image: position, locals, last result
    g_pc, g_topic, g_image, g_result,
    \* a caller inside stop(): position
    s_pc,
    \* a caller of the topic balancer's methods: the last method called and
    \* what it returned
    c_call, c_topic,
    \* history: the pool and counters at the top of the manager's current
    \* cycle, the image the cycle evicted, the number of download cycles so
    \* far while every one of them has succeeded, the pool and counters at
    \* the start of the get_random_image call in progress, and the request
    \* counter at the top of the manager's current cycle
    h_start, h_evicted, h_cycles, h_call, h_counter

vars == << max_api_requests_per_hour, max_images_per_hour_x2,
           setup_done, th_stop, connected,
           api_requests_counter, first_image_in_this_hour,
           t_since_first_down_image,
           topics, images, num_images, num_images_topic,
           file_locks, files, session,
           m_pc, first_iteration, m_topic, m_image, m_error,
           g_pc, g_topic, g_image, g_result, s_pc, c_call, c_topic,
           h_start, h_evicted, h_cycles, h_call, h_counter >>

configVars == << max_api_requests_per_hour, max_images_per_hour_x2, setup_done >>
rateVars == << api_requests_counter, first_image_in_this_hour,
               t_since_first_down_image >>
poolVars == << topics, images, num_images, num_images_topic >>
mgrLocals == << first_iteration, m_topic, m_image, m_error >>
getVars == << g_pc, g_topic, g_image, g_result, h_call >>
histVars == << h_start, h_evicted, h_cycles, h_counter >>
stopVars == << th_stop, s_pc >>
callVars == << c_call, c_topic >>

(***************************************************************************)
(* Program constants                                                       *)
(***************************************************************************)
MAX_DEMO_REQUESTS_PER_HOUR == 50
REQUESTS_PER_IMAGE_DOWNLOAD == 2
SECONDS_IN_HOUR == 3600

(***************************************************************************)
(* Bounds of the model                                                     *)
(***************************************************************************)
\* the custom quota the constructor is given, in images per hour
SmallImagesPerHour == 2
SmallQuota == REQUESTS_PER_IMAGE_DOWNLOAD * SmallImagesPerHour
\* the optional pool cap handed to setup (max_num_images)
SmallCap == 1
\* the pool cap of the demo scenario (max_num_images)
DemoCap == 2
\* once the counter is this far above the quota, the downloads attempted
\* fail before any request is charged
MaxOvershoot == 2
\* seconds by which one clock step advances time
ClockStep == 3600

\* the photos the remote API can return for a random search
Photos == {"p1", "p2"}

(***************************************************************************)
(* Values                                                                  *)
(***************************************************************************)
NoPath == <<"", 0>>
NoImage == [id |-> "", attribution |-> <<>>, file_path |-> NoPath, raw |-> 0]
NoData == <<>>
\* a dictionary with no key
EmptyMap == [q \in {} |-> ""]
BytesOf(p) == <<"bytes", p>>
PartialBytes == <<"bytes", "truncated">>

\* download_image, lines 387-392: the attribution names the photographer of
\* the photo (here each photo has its own photographer)
Attribution(p) == <<"Photo by", p, "on Unsplash">>

\* manage, lines 330-331: img_file_name = f"{topic}_{count}.jpg"
FilePath(topic, count) == <<topic, count>>

\* what get_random_image returns or raises
ResNone == [kind |-> "None", attribution |-> <<>>, id |-> "", image |-> NoData,
            topic |-> ""]
ResPending == [ResNone EXCEPT !.kind = "pending"]
ResError(e) == [ResNone EXCEPT !.kind = e]
ResImage(img, data, topic) ==
    [kind |-> "image", attribution |-> img.attribution, id |-> img.id,
     image |-> data, topic |-> topic]

Range(s) == {s[i] : i \in 1..Len(s)}
Min2(a, b) == IF a < b THEN a ELSE b

(***************************************************************************)
(* List and dictionary helpers                                             *)
(***************************************************************************)
\* list.remove(e): the list without the first element equal to e
RECURSIVE RemoveFirst(_, _)
RemoveFirst(s, e) ==
    IF s = <<>> THEN <<>>
    ELSE IF Head(s) = e THEN Tail(s)
    ELSE <<Head(s)>> \o RemoveFirst(Tail(s), e)

\* e in list
InList(s, e) == \E i \in 1..Len(s) : s[i] = e

\* the number of stored images over a list of topics
RECURSIVE SumLens(_, _)
SumLens(tps, imgs) ==
    IF tps = <<>> THEN 0
    ELSE Len(imgs[Head(tps)]) + SumLens(Tail(tps), imgs)

\* mutant: the restore leaves the per-topic counters at zero
CountTopicNotCounted(imgs) == [t \in DOMAIN imgs |-> 0]

\* the counters as restore_images_data_session recounts them
CountTopic(imgs) == [t \in DOMAIN imgs |-> Len(imgs[t])]

AllImages(imgs) == UNION {Range(imgs[t]) : t \in DOMAIN imgs}

\* the raw objects alive in the process
UsedRaw == {i.raw : i \in AllImages(images)} \cup {m_image.raw, g_image.raw}

\* the identity of a newly created object: any identity not alive would do
FreshRaw == CHOOSE n \in 1..(Cardinality(UsedRaw) + 1) :
                /\ n \notin UsedRaw
                /\ \A k \in 1..(n - 1) : k \in UsedRaw

(***************************************************************************)
(* Topic balancer                                                          *)
(***************************************************************************)
\* get_topic_more_num_images, lines 505-509: the highest list length
RECURSIVE MoreLen(_, _, _)
MoreLen(tps, imgs, more_len) ==
    IF tps = <<>> THEN more_len
    ELSE MoreLen(Tail(tps), imgs,
                 IF Len(imgs[Head(tps)]) > more_len
                     THEN Len(imgs[Head(tps)]) ELSE more_len)

\* mutant: the first topic of the highest length is the only one drawn
FirstMost(tps, imgs) ==
    IF tps = <<>> THEN {}
    ELSE {tps[CHOOSE i \in 1..Len(tps) :
                  /\ Len(imgs[tps[i]]) = MoreLen(tps, imgs, 0)
                  /\ \A j \in 1..(i - 1) :
                        Len(imgs[tps[j]]) # MoreLen(tps, imgs, 0)]}

\* get_topic_more_num_images, lines 511-514: the topics choice() draws from;
\* the call raises IndexError when this set is empty
get_topic_more_num_images(tps, imgs) ==
    {t \in Range(tps) : Len(imgs[t]) = MoreLen(tps, imgs, 0)}

\* get_topic_less_num_images, lines 518-524: left-to-right scan with <=,
\* less_len kept doubled because it starts as max_images_per_hour
RECURSIVE LessScan(_, _, _, _)
LessScan(tps, imgs, less_len_x2, less_topic) ==
    IF tps = <<>> THEN less_topic
    ELSE IF 2 * Len(imgs[Head(tps)]) <= less_len_x2
        THEN LessScan(Tail(tps), imgs, 2 * Len(imgs[Head(tps)]), Head(tps))
        ELSE LessScan(Tail(tps), imgs, less_len_x2, less_topic)

\* mutant: the pool always grows on the first topic
FirstTopic(tps, imgs, cap_x2) == IF tps = <<>> THEN "" ELSE Head(tps)

get_topic_less_num_images(tps, imgs, cap_x2) == LessScan(tps, imgs, cap_x2, "")

(***************************************************************************)
(* What the previous run may have left in the images directory             *)
(***************************************************************************)
Img(p, path, raw) ==
    [id |-> p, attribution |-> Attribution(p), file_path |-> path, raw |-> raw]

\* the snapshot written after the first download of a run with topics a, b
\* (get_topic_less_num_images picks the last of the tied topics, "b")
PrevSession ==
    [readable |-> TRUE,
     topics |-> <<"a", "b">>,
     images |-> [t \in {"a", "b"} |->
                    IF t = "b" THEN <<Img("p1", FilePath("b", 0), 1)>>
                    ELSE <<>>]]

SessionFiles == {<<>>, <<PrevSession>>}

\* the image files a session's snapshot refers to
FilesOf(sess) ==
    IF sess = <<>> THEN EmptyMap
    ELSE LET imgs == AllImages(sess[1].images)
         IN  [q \in {i.file_path : i \in imgs} |->
                 BytesOf((CHOOSE i \in imgs : i.file_path = q).id)]

\* the topic list setup is given
TwoTopics == <<"a", "b">>
OneTopic == <<"x">>
\* the max_num_images setup is given (0: derive the cap from the quota)
MaxNums == {0, SmallCap}

\* the pool and its counters, as one value
PoolNow(imgs, n, nt) == [images |-> imgs, num_images |-> n, num_images_topic |-> nt]
NoPool == PoolNow(EmptyMap, 0, EmptyMap)

(***************************************************************************)
(* Construction: __init__, lines 106-139                                   *)
(***************************************************************************)
InitWith(quota, sess) ==
    /\ max_api_requests_per_hour = quota
    /\ max_images_per_hour_x2 = quota   \* 2 * (quota / 2)
    /\ setup_done = FALSE
    /\ th_stop = FALSE
    /\ connected = FALSE
    /\ api_requests_counter = 0
    /\ first_image_in_this_hour = TRUE
    /\ t_since_first_down_image = 0
    /\ topics = <<>>
    /\ images = EmptyMap
    /\ num_images = 0
    /\ num_images_topic = EmptyMap
    /\ file_locks = EmptyMap
    /\ files = FilesOf(sess)
    /\ session = sess
    /\ m_pc = "nothread"
    /\ first_iteration = TRUE
    /\ m_topic = ""
    /\ m_image = NoImage
    /\ m_error = ""
    /\ g_pc = "idle"
    /\ g_topic = ""
    /\ g_image = NoImage
    /\ g_result = ResPending
    /\ h_call = NoPool
    /\ h_start = NoPool
    /\ h_evicted = NoImage
    /\ h_cycles = 0
    /\ h_counter = 0
    /\ s_pc = "nocall"
    /\ c_call = "none"
    /\ c_topic = ""

Init == \E sess \in SessionFiles : InitWith(SmallQuota, sess)

(***************************************************************************)
(* setup, lines 190-205, with restore_images_data_session, lines 156-175   *)
(***************************************************************************)
\* the dict setup builds from the topic list (lines 197-201)
EmptyPool(tps) == [t \in Range(tps) |-> <<>>]

\* mutant: only the first key of the restored dict becomes a topic
RestoredTopicsFirst(snap) ==
    IF snap.topics = <<>> THEN <<>> ELSE <<Head(snap.topics)>>

\* the keys of the restored dict in dict order (lines 164-167)
RestoredTopics(snap) == snap.topics

Setup(tps, max_num_images) ==
    /\ ~setup_done
    /\ m_pc = "nothread"
    /\ g_pc = "idle"
    /\ max_images_per_hour_x2' =
           IF max_num_images # 0 /\ 2 * max_num_images < max_images_per_hour_x2
               THEN 2 * max_num_images ELSE max_images_per_hour_x2
    /\ IF session # <<>> /\ session[1].readable
           THEN \* restore_images_data_session replaces pool, counters, topics
                /\ images' = session[1].images
                /\ topics' = RestoredTopics(session[1])
                /\ num_images' = SumLens(RestoredTopics(session[1]),
                                         session[1].images)
                /\ num_images_topic' = CountTopic(session[1].images)
                /\ file_locks' =
                       [q \in {i.file_path : i \in AllImages(session[1].images)}
                           |-> "free"]
           ELSE /\ images' = EmptyPool(tps)
                /\ topics' = tps
                /\ num_images' = num_images
                /\ num_images_topic' = [t \in Range(tps) |-> 0]
                /\ file_locks' = file_locks
    /\ setup_done' = TRUE
    /\ UNCHANGED << max_api_requests_per_hour, callVars, stopVars, connected, rateVars,
                    files, session, m_pc, mgrLocals, getVars, histVars >>

(***************************************************************************)
(* start, lines 246-259, and stop, lines 266-271 (the join is the caller   *)
(* waiting; the flag is what the manager sees)                             *)
(***************************************************************************)
Start ==
    /\ setup_done
    /\ m_pc = "nothread"
    /\ th_stop' = FALSE
    /\ m_pc' = "L282"
    /\ UNCHANGED << configVars, callVars, s_pc, connected, rateVars, poolVars, file_locks,
                    files, session, mgrLocals, getVars, histVars >>

\* lines 266-268: stop() on a started manager sets the flag
Stop ==
    /\ m_pc # "nothread"
    /\ s_pc = "nocall"
    /\ th_stop' = TRUE
    /\ s_pc' = "joining"
    /\ UNCHANGED << configVars, callVars, connected, rateVars, poolVars, file_locks,
                    files, session, m_pc, mgrLocals, getVars, histVars >>

\* mutant: stop() returns without waiting for the thread
StopReturnsAtOnce ==
    /\ s_pc = "joining"
    /\ s_pc' = "returned"
    /\ UNCHANGED << configVars, callVars, th_stop, connected, rateVars, poolVars,
                    file_locks, files, session, m_pc, mgrLocals, getVars,
                    histVars >>

\* lines 269-271: join() returns once the thread has ended (is_alive() is
\* false for a thread that has ended), then stop() returns True
StopReturns ==
    /\ s_pc = "joining"
    /\ m_pc \in {"done", "crashed"}
    /\ s_pc' = "returned"
    /\ UNCHANGED << configVars, callVars, th_stop, connected, rateVars, poolVars,
                    file_locks, files, session, m_pc, mgrLocals, getVars,
                    histVars >>

(***************************************************************************)
(* Environment: the clock, and files removed from the directory by others  *)
(***************************************************************************)
Tick ==
    /\ t_since_first_down_image <= SECONDS_IN_HOUR
    /\ t_since_first_down_image' = t_since_first_down_image + ClockStep
    /\ UNCHANGED << configVars, callVars, stopVars, connected, api_requests_counter,
                    first_image_in_this_hour, poolVars, file_locks, files,
                    session, m_pc, mgrLocals, getVars, histVars >>

ExternalDelete(q) ==
    /\ q \in DOMAIN files
    /\ files' = [r \in DOMAIN files \ {q} |-> files[r]]
    /\ UNCHANGED << configVars, callVars, stopVars, connected, rateVars, poolVars,
                    file_locks, session, m_pc, mgrLocals, getVars, histVars >>

(***************************************************************************)
(* manage, lines 280-342                                                   *)
(***************************************************************************)
\* history: a download cycle ended without storing an image
Tainted == 0 - 1
CycleFailed == h_cycles' = Tainted

\* history: a download cycle stored its image; the count stops one past the
\* number of images a quota window pays for
CycleSucceeded ==
    h_cycles' = IF h_cycles = Tainted THEN Tainted
                ELSE Min2(h_cycles + 1,
                          max_api_requests_per_hour \div REQUESTS_PER_IMAGE_DOWNLOAD + 1)

\* an unhandled exception ends the thread
Crash(e) ==
    /\ m_pc' = "crashed"
    /\ m_error' = e

\* "continue", or the end of the loop body: back to the while test; the
\* locals topic and image are dead there
NextCycle ==
    /\ m_pc' = "L282"
    /\ m_topic' = ""
    /\ m_image' = NoImage

\* line 282: while not self.th_stop
L282 ==
    /\ m_pc = "L282"
    /\ IF th_stop
           THEN m_pc' = "done" /\ UNCHANGED histVars
           ELSE /\ m_pc' = "L284"
                /\ h_start' = PoolNow(images, num_images, num_images_topic)
                /\ h_evicted' = NoImage
                /\ h_counter' = api_requests_counter
                /\ UNCHANGED h_cycles
    /\ UNCHANGED << configVars, callVars, stopVars, connected, rateVars, poolVars,
                    file_locks, files, session, mgrLocals, getVars >>

\* mutant: the loop lets one more download through at the quota
QuotaExceeded(counter, quota) == counter > quota

\* the quota test the loop makes (line 284)
QuotaReached(counter, quota) == counter = quota

\* mutant: the window is over at the hour, not after it
HourReached(elapsed) == elapsed >= SECONDS_IN_HOUR

\* line 287: time() - self.t_first_down_image > self.SECONDS_IN_HOUR
HourPassed(elapsed) == elapsed > SECONDS_IN_HOUR

\* lines 284-290, 294: the quota test, the hourly reset, the connection test
L284 ==
    /\ m_pc = "L284"
    /\ IF QuotaReached(api_requests_counter, max_api_requests_per_hour)
           THEN /\ m_pc' = "L291"
                /\ IF HourPassed(t_since_first_down_image)
                       THEN /\ api_requests_counter' = 0
                            /\ first_image_in_this_hour' = TRUE
                       ELSE UNCHANGED << api_requests_counter,
                                         first_image_in_this_hour >>
           ELSE /\ m_pc' = IF connected THEN "L304" ELSE "L295"
                /\ UNCHANGED << api_requests_counter, first_image_in_this_hour >>
    /\ UNCHANGED << configVars, callVars, stopVars, connected, t_since_first_down_image,
                    poolVars, file_locks, files, session, mgrLocals, getVars,
                    histVars >>

\* lines 291-292: sleep(60); continue
L291 ==
    /\ m_pc = "L291"
    /\ NextCycle
    /\ UNCHANGED << configVars, callVars, stopVars, connected, rateVars, poolVars,
                    file_locks, files, session, first_iteration, m_error,
                    getVars, histVars >>

\* mutant: the cycle goes on to the download whether connect succeeded or not
L295_Proceeds ==
    /\ m_pc = "L295"
    /\ \E ok \in BOOLEAN :
        /\ connected' = ok
        /\ m_pc' = "L304"
    /\ UNCHANGED << configVars, callVars, stopVars, rateVars, poolVars,
                    file_locks, files, session, mgrLocals, getVars, histVars >>

\* lines 295-298 with connect, lines 347-360
L295 ==
    /\ m_pc = "L295"
    /\ \E ok \in BOOLEAN :
        /\ connected' = ok
        /\ m_pc' = IF ok THEN "L304" ELSE "L299"
    /\ UNCHANGED << configVars, callVars, stopVars, rateVars, poolVars, file_locks, files,
                    session, mgrLocals, getVars, histVars >>

\* lines 299-302: sleep(T_RETRY_CONNECT_S); continue
L299 ==
    /\ m_pc = "L299"
    /\ NextCycle
    /\ UNCHANGED << configVars, callVars, stopVars, connected, rateVars, poolVars,
                    file_locks, files, session, first_iteration, m_error,
                    getVars, histVars >>

\* lines 304, 307: the first iteration does not wait
L304 ==
    /\ m_pc = "L304"
    /\ m_pc' = IF first_iteration THEN "L309" ELSE "L306"
    /\ first_iteration' = FALSE
    /\ UNCHANGED << configVars, callVars, stopVars, connected, rateVars, poolVars,
                    file_locks, files, session, m_topic, m_image, m_error,
                    getVars, histVars >>

\* lines 305-307: sleep(time_to_download_img + rand_time)
L306 ==
    /\ m_pc = "L306"
    /\ m_pc' = "L309"
    /\ first_iteration' = FALSE
    /\ UNCHANGED << configVars, callVars, stopVars, connected, rateVars, poolVars,
                    file_locks, files, session, m_topic, m_image, m_error,
                    getVars, histVars >>

\* lines 309-310, 318-319: the pool is full (evict) or not (grow)
L309 ==
    /\ m_pc = "L309"
    /\ IF 2 * num_images >= max_images_per_hour_x2
           THEN IF get_topic_more_num_images(topics, images) = {}
                    THEN Crash("IndexError") /\ UNCHANGED m_topic
                    ELSE /\ m_topic' \in get_topic_more_num_images(topics, images)
                         /\ m_pc' = "L311"
                         /\ UNCHANGED m_error
           ELSE /\ m_topic' = get_topic_less_num_images(
                                  topics, images, max_images_per_hour_x2)
                /\ m_pc' = "L320"
                /\ UNCHANGED m_error
    /\ UNCHANGED << configVars, callVars, stopVars, connected, rateVars, poolVars,
                    file_locks, files, session, first_iteration, m_image,
                    getVars, histVars >>

\* line 311: image = choice(self.images[topic])
L311 ==
    /\ m_pc = "L311"
    /\ IF images[m_topic] = <<>>
           THEN Crash("IndexError") /\ UNCHANGED m_image
           ELSE /\ m_image' \in Range(images[m_topic])
                /\ m_pc' = "L440"
                /\ UNCHANGED m_error
    /\ UNCHANGED << configVars, callVars, stopVars, connected, rateVars, poolVars,
                    file_locks, files, session, first_iteration, m_topic,
                    getVars, histVars >>

(***************************************************************************)
(* The per-path locks (threading.Lock objects in the dict file_locks)      *)
(***************************************************************************)
\* "if file_path in self.file_locks: self.file_locks[file_path].acquire()"
\* returns at once when the path has no lock, and blocks while it is held
CanAcquire(q) == IF q \in DOMAIN file_locks THEN file_locks[q] = "free" ELSE TRUE
Acquire(locks, q, who) ==
    IF q \in DOMAIN locks THEN [locks EXCEPT ![q] = who] ELSE locks

\* "if file_path in self.file_locks: self.file_locks[file_path].release()"
\* raises RuntimeError when the lock now in the dict is not held
ReleaseRaises(locks, q) == q \in DOMAIN locks /\ locks[q] = "free"
Release(locks, q) ==
    IF q \in DOMAIN locks THEN [locks EXCEPT ![q] = "free"] ELSE locks

\* self.file_locks[path] = Lock(): a new, unheld lock object under the key
NewLock(locks, q) ==
    [r \in DOMAIN locks \cup {q} |-> IF r = q THEN "free" ELSE locks[r]]

\* mutant: the file stays in the directory
WithoutKept(fs, q) == fs

\* the directory after a file is removed, and after one is written
Without(fs, q) == [r \in DOMAIN fs \ {q} |-> fs[r]]
Written(fs, q, data) ==
    [r \in DOMAIN fs \cup {q} |-> IF r = q THEN data ELSE fs[r]]

\* lines 312 and 440-441: remove_image_file takes the path's lock
L440 ==
    /\ m_pc = "L440"
    /\ CanAcquire(m_image.file_path)
    /\ file_locks' = Acquire(file_locks, m_image.file_path, "manager")
    /\ m_pc' = "L443"
    /\ UNCHANGED << configVars, callVars, stopVars, connected, rateVars, poolVars, files,
                    session, mgrLocals, getVars, histVars >>

\* lines 442-453 and 312-313: remove the file if it exists, release the lock,
\* and give the cycle up when nothing was removed
L443 ==
    /\ m_pc = "L443"
    /\ LET q == m_image.file_path IN
       \E os_error \in (IF q \in DOMAIN files THEN BOOLEAN ELSE {FALSE}) :
         LET remove_ok == q \in DOMAIN files /\ ~os_error IN
         /\ files' = IF remove_ok THEN Without(files, q) ELSE files
         /\ IF ReleaseRaises(file_locks, q)
                THEN /\ Crash("RuntimeError")
                     /\ UNCHANGED << file_locks, m_topic, m_image, h_cycles >>
                ELSE /\ file_locks' = Release(file_locks, q)
                     /\ IF remove_ok
                            THEN /\ m_pc' = "L314"
                                 /\ UNCHANGED << m_topic, m_image, h_cycles >>
                            ELSE NextCycle /\ CycleFailed
                     /\ UNCHANGED m_error
    /\ UNCHANGED << configVars, callVars, stopVars, connected, rateVars, poolVars,
                    session, first_iteration, getVars, h_start, h_evicted, h_counter >>

\* line 314: self.images[topic].remove(image)
L314 ==
    /\ m_pc = "L314"
    /\ IF InList(images[m_topic], m_image)
           THEN /\ images' = [images EXCEPT
                                 ![m_topic] = RemoveFirst(images[m_topic], m_image)]
                /\ h_evicted' = m_image
                /\ m_pc' = "L315"
                /\ UNCHANGED m_error
           ELSE /\ Crash("ValueError")
                /\ UNCHANGED << images, h_evicted >>
    /\ UNCHANGED << configVars, callVars, stopVars, connected, rateVars, topics,
                    num_images, num_images_topic, file_locks, files, session,
                    first_iteration, m_topic, m_image, getVars, h_start,
                    h_cycles, h_counter >>

\* line 315: self.num_images = self.num_images - 1
L315 ==
    /\ m_pc = "L315"
    /\ num_images' = num_images - 1
    /\ m_pc' = "L316"
    /\ UNCHANGED << configVars, callVars, stopVars, connected, rateVars, topics, images,
                    num_images_topic, file_locks, files, session, mgrLocals,
                    getVars, histVars >>

\* mutant: the eviction forgets the topic's counter
L316_NotCounted ==
    /\ m_pc = "L316"
    /\ m_pc' = "L320"
    /\ UNCHANGED << configVars, callVars, stopVars, connected, rateVars, poolVars,
                    file_locks, files, session, mgrLocals, getVars, histVars >>

\* line 316: self.num_images_topic[topic] = self.num_images_topic[topic] - 1
L316 ==
    /\ m_pc = "L316"
    /\ num_images_topic' =
           [num_images_topic EXCEPT ![m_topic] = num_images_topic[m_topic] - 1]
    /\ m_pc' = "L320"
    /\ UNCHANGED << configVars, callVars, stopVars, connected, rateVars, topics, images,
                    num_images, file_locks, files, session, mgrLocals,
                    getVars, histVars >>

\* lines 320-321: no topic, nothing to do
L320 ==
    /\ m_pc = "L320"
    /\ IF m_topic = "" THEN NextCycle
       ELSE m_pc' = "L324" /\ UNCHANGED << m_topic, m_image >>
    /\ UNCHANGED << configVars, callVars, stopVars, connected, rateVars, poolVars,
                    file_locks, files, session, first_iteration, m_error,
                    getVars, histVars >>

(***************************************************************************)
(* download_image, lines 373-407                                           *)
(***************************************************************************)
\* how a call can end: the search raises or returns None (line 379-383), the
\* HTTP GET raises or answers another status than 200 (393-396), the download
\* notification raises (402), or all three succeed
DownloadOutcomes == {"search_fail", "fetch_fail", "notify_fail", "ok"}

\* mutant: a download charges one request at most
ChargedOnce(outcome) == IF outcome = "search_fail" THEN 0 ELSE 1

\* the requests the call adds to api_requests_counter (lines 384 and 403)
Charged(outcome) ==
    CASE outcome = "search_fail" -> 0
      [] outcome = "fetch_fail"  -> 1
      [] outcome = "notify_fail" -> 1
      [] outcome = "ok"          -> REQUESTS_PER_IMAGE_DOWNLOAD

\* line 324: image = self.download_image(topic, ...)
L324(outcomes, photos) ==
    /\ m_pc = "L324"
    /\ \E outcome \in outcomes, p \in photos :
        /\ IF api_requests_counter < max_api_requests_per_hour + MaxOvershoot
               THEN TRUE ELSE Charged(outcome) = 0
        /\ api_requests_counter' = api_requests_counter + Charged(outcome)
        /\ m_image' = IF outcome = "ok" THEN Img(p, NoPath, FreshRaw) ELSE NoImage
    /\ m_pc' = "L325"
    /\ UNCHANGED << configVars, callVars, stopVars, connected, first_image_in_this_hour,
                    t_since_first_down_image, poolVars, file_locks, files,
                    session, first_iteration, m_topic, m_error, getVars,
                    histVars >>

\* lines 325-331: give up on a failed download; else stamp the window start
\* on the first image of the hour and name the file after the topic's count
L325 ==
    /\ m_pc = "L325"
    /\ IF m_image = NoImage
           THEN /\ NextCycle
                /\ CycleFailed
                /\ UNCHANGED << first_image_in_this_hour,
                                t_since_first_down_image >>
           ELSE /\ IF first_image_in_this_hour
                       THEN /\ first_image_in_this_hour' = FALSE
                            /\ t_since_first_down_image' = 0
                       ELSE UNCHANGED << first_image_in_this_hour,
                                         t_since_first_down_image >>
                /\ m_image' = [m_image EXCEPT !.file_path =
                                  FilePath(m_topic, num_images_topic[m_topic])]
                /\ m_pc' = "L417"
                /\ UNCHANGED << m_topic, h_cycles >>
    /\ UNCHANGED << configVars, callVars, stopVars, connected, api_requests_counter,
                    poolVars, file_locks, files, session, first_iteration,
                    m_error, getVars, h_start, h_evicted, h_counter >>

(***************************************************************************)
(* save_data_to_file, lines 415-431, called at line 332                    *)
(***************************************************************************)
\* lines 417-420: create_file_dir fails (return False, line 333 continues),
\* or the path's lock, if it has one, is taken
L417 ==
    /\ m_pc = "L417"
    /\ \E dir_ok \in BOOLEAN :
        IF dir_ok
            THEN /\ CanAcquire(m_image.file_path)
                 /\ file_locks' = Acquire(file_locks, m_image.file_path, "manager")
                 /\ m_pc' = "L422"
                 /\ UNCHANGED << m_topic, m_image, h_cycles >>
            ELSE /\ NextCycle
                 /\ CycleFailed
                 /\ UNCHANGED file_locks
    /\ UNCHANGED << configVars, callVars, stopVars, connected, rateVars, poolVars, files,
                    session, first_iteration, m_error, getVars, h_start,
                    h_evicted, h_counter >>

\* how the write can end: open() raises, copyfileobj raises after open()
\* truncated the file, or the bytes are written
WriteOutcomes == {"open_error", "copy_error", "ok"}

\* lines 421-431 and 332-333: write, release the lock, continue on failure
L422(outcomes) ==
    /\ m_pc = "L422"
    /\ LET q == m_image.file_path IN
       \E outcome \in outcomes :
         /\ files' = CASE outcome = "ok" -> Written(files, q, BytesOf(m_image.id))
                       [] outcome = "copy_error" -> Written(files, q, PartialBytes)
                       [] outcome = "open_error" -> files
         /\ IF ReleaseRaises(file_locks, q)
                THEN /\ Crash("RuntimeError")
                     /\ UNCHANGED << file_locks, m_topic, m_image, h_cycles >>
                ELSE /\ file_locks' = Release(file_locks, q)
                     /\ IF outcome = "ok"
                            THEN /\ m_pc' = "L335"
                                 /\ UNCHANGED << m_topic, m_image, h_cycles >>
                            ELSE NextCycle /\ CycleFailed
                     /\ UNCHANGED m_error
    /\ UNCHANGED << configVars, callVars, stopVars, connected, rateVars, poolVars,
                    session, first_iteration, getVars, h_start, h_evicted, h_counter >>

\* line 335: self.images[topic].append(image)
L335 ==
    /\ m_pc = "L335"
    /\ images' = [images EXCEPT ![m_topic] = Append(images[m_topic], m_image)]
    /\ m_pc' = "L336"
    /\ UNCHANGED << configVars, callVars, stopVars, connected, rateVars, topics,
                    num_images, num_images_topic, file_locks, files, session,
                    mgrLocals, getVars, histVars >>

\* line 336: self.file_locks[image["file_path"]] = Lock()
L336 ==
    /\ m_pc = "L336"
    /\ file_locks' = NewLock(file_locks, m_image.file_path)
    /\ m_pc' = "L337"
    /\ UNCHANGED << configVars, callVars, stopVars, connected, rateVars, poolVars, files,
                    session, mgrLocals, getVars, histVars >>

\* line 337: self.num_images = self.num_images + 1
L337 ==
    /\ m_pc = "L337"
    /\ num_images' = num_images + 1
    /\ m_pc' = "L338"
    /\ UNCHANGED << configVars, callVars, stopVars, connected, rateVars, topics, images,
                    num_images_topic, file_locks, files, session, mgrLocals,
                    getVars, histVars >>

\* line 338: self.num_images_topic[topic] = self.num_images_topic[topic] + 1
L338 ==
    /\ m_pc = "L338"
    /\ num_images_topic' =
           [num_images_topic EXCEPT ![m_topic] = num_images_topic[m_topic] + 1]
    /\ m_pc' = "L341"
    /\ UNCHANGED << configVars, callVars, stopVars, connected, rateVars, topics, images,
                    num_images, file_locks, files, session, mgrLocals,
                    getVars, histVars >>

\* save_images_data_session, lines 143-150: the snapshot holds self.images
Snapshot(tps, imgs) == [readable |-> TRUE, topics |-> tps, images |-> imgs]

\* the session file after pickle_dump raised on a file open() had truncated
CorruptSession == [readable |-> FALSE, topics |-> <<>>, images |-> EmptyMap]

\* line 341 with pickle_save, lines 532-538: a failed save is only logged
L341(outcomes) ==
    /\ m_pc = "L341"
    /\ \E outcome \in outcomes :
        session' = CASE outcome = "ok" -> <<Snapshot(topics, images)>>
                     [] outcome = "copy_error" -> <<CorruptSession>>
                     [] outcome = "open_error" -> session
    /\ NextCycle
    /\ CycleSucceeded
    /\ UNCHANGED << configVars, callVars, stopVars, connected, rateVars, poolVars,
                    file_locks, files, first_iteration, m_error, getVars,
                    h_start, h_evicted, h_counter >>

(***************************************************************************)
(* get_random_image, lines 216-242, with file_read, lines 460-471          *)
(***************************************************************************)
\* the call ends: it returns r, or raises when r is an error
Return(r) ==
    /\ g_pc' = "idle"
    /\ g_result' = r
    /\ g_topic' = ""
    /\ g_image' = NoImage
    /\ h_call' = NoPool

\* lines 216-219
G216 ==
    /\ g_pc = "idle"
    /\ IF ~setup_done \/ num_images = 0
           THEN Return(ResNone)
           ELSE /\ g_pc' = "G221"
                /\ g_result' = ResPending
                /\ h_call' = PoolNow(images, num_images, num_images_topic)
                /\ UNCHANGED << g_topic, g_image >>
    /\ UNCHANGED << configVars, callVars, stopVars, connected, rateVars, poolVars,
                    file_locks, files, session, m_pc, mgrLocals, histVars >>

\* lines 220-226: the topics that hold an image, and one of them
G221 ==
    /\ g_pc = "G221"
    /\ LET topics_with_any_image == {t \in Range(topics) : Len(images[t]) > 0} IN
       IF topics_with_any_image = {}
           THEN Return(ResNone)
           ELSE /\ g_topic' \in topics_with_any_image
                /\ g_pc' = "G227"
                /\ UNCHANGED << g_image, g_result, h_call >>
    /\ UNCHANGED << configVars, callVars, stopVars, connected, rateVars, poolVars,
                    file_locks, files, session, m_pc, mgrLocals, histVars >>

\* line 227: random_image = choice(self.images[random_topic])
G227 ==
    /\ g_pc = "G227"
    /\ IF images[g_topic] = <<>>
           THEN Return(ResError("IndexError"))
           ELSE /\ g_image' \in Range(images[g_topic])
                /\ g_pc' = "G462"
                /\ UNCHANGED << g_topic, g_result, h_call >>
    /\ UNCHANGED << configVars, callVars, stopVars, connected, rateVars, poolVars,
                    file_locks, files, session, m_pc, mgrLocals, histVars >>

\* lines 228 and 462-463: file_read takes the path's lock
G462 ==
    /\ g_pc = "G462"
    /\ CanAcquire(g_image.file_path)
    /\ file_locks' = Acquire(file_locks, g_image.file_path, "getter")
    /\ g_pc' = "G465"
    /\ UNCHANGED << configVars, callVars, stopVars, connected, rateVars, poolVars, files,
                    session, m_pc, mgrLocals, g_topic, g_image, g_result,
                    h_call, histVars >>

\* lines 464-471 and 229, 235-242: read the file (None when it is missing or
\* the read raises), release the lock, return the record when there is data
G465 ==
    /\ g_pc = "G465"
    /\ LET q == g_image.file_path IN
       \E os_error \in (IF q \in DOMAIN files THEN BOOLEAN ELSE {FALSE}) :
         LET read_data == IF q \in DOMAIN files /\ ~os_error
                              THEN files[q] ELSE NoData IN
         IF ReleaseRaises(file_locks, q)
             THEN Return(ResError("RuntimeError")) /\ UNCHANGED file_locks
             ELSE /\ file_locks' = Release(file_locks, q)
                  /\ IF read_data = NoData
                         THEN /\ g_pc' = "G230"
                              /\ UNCHANGED << g_topic, g_image, g_result, h_call >>
                         ELSE Return(ResImage(g_image, read_data, g_topic))
    /\ UNCHANGED << configVars, callVars, stopVars, connected, rateVars, poolVars, files,
                    session, m_pc, mgrLocals, histVars >>

\* line 230: self.images[random_topic].remove(random_image)
G230 ==
    /\ g_pc = "G230"
    /\ IF InList(images[g_topic], g_image)
           THEN /\ images' = [images EXCEPT
                                 ![g_topic] = RemoveFirst(images[g_topic], g_image)]
                /\ g_pc' = "G231"
                /\ UNCHANGED << g_topic, g_image, g_result, h_call >>
           ELSE Return(ResError("ValueError")) /\ UNCHANGED images
    /\ UNCHANGED << configVars, callVars, stopVars, connected, rateVars, topics,
                    num_images, num_images_topic, file_locks, files, session,
                    m_pc, mgrLocals, histVars >>

\* mutant: the purge forgets the total
G231_NotCounted ==
    /\ g_pc = "G231"
    /\ g_pc' = "G232"
    /\ UNCHANGED << configVars, callVars, stopVars, connected, rateVars, poolVars,
                    file_locks, files, session, m_pc, mgrLocals, g_topic,
                    g_image, g_result, h_call, histVars >>

\* line 231: self.num_images = self.num_images - 1
G231 ==
    /\ g_pc = "G231"
    /\ num_images' = num_images - 1
    /\ g_pc' = "G232"
    /\ UNCHANGED << configVars, callVars, stopVars, connected, rateVars, topics, images,
                    num_images_topic, file_locks, files, session, m_pc,
                    mgrLocals, g_topic, g_image, g_result, h_call, histVars >>

\* mutant: the purge takes the image off the topic's counter twice
G232_Twice ==
    /\ g_pc = "G232"
    /\ num_images_topic' =
           [num_images_topic EXCEPT ![g_topic] = num_images_topic[g_topic] - 2]
    /\ Return(ResNone)
    /\ UNCHANGED << configVars, callVars, stopVars, connected, rateVars, topics, images,
                    num_images, file_locks, files, session, m_pc, mgrLocals,
                    histVars >>

\* lines 232-234: the topic's counter, then return None
G232 ==
    /\ g_pc = "G232"
    /\ num_images_topic' =
           [num_images_topic EXCEPT ![g_topic] = num_images_topic[g_topic] - 1]
    /\ Return(ResNone)
    /\ UNCHANGED << configVars, callVars, stopVars, connected, rateVars, topics, images,
                    num_images, file_locks, files, session, m_pc, mgrLocals,
                    histVars >>

(***************************************************************************)
(* Specifications                                                          *)
(***************************************************************************)
\* the manager thread, given what the network and the disk may answer
Manager(downloads, photos, writes, saves) ==
    \/ L282 \/ L284 \/ L291 \/ L295 \/ L299 \/ L304 \/ L306 \/ L309 \/ L311
    \/ L440 \/ L443 \/ L314 \/ L315 \/ L316 \/ L320
    \/ L324(downloads, photos) \/ L325 \/ L417 \/ L422(writes)
    \/ L335 \/ L336 \/ L337 \/ L338 \/ L341(saves)

Getter == G216 \/ G221 \/ G227 \/ G462 \/ G465 \/ G230 \/ G231 \/ G232

\* the caller configures the object with one of the pool caps
Configure(tps) == \E mx \in MaxNums : Setup(tps, mx)

\* The manager thread and a caller of get_random_image run concurrently, in
\* one quota window (no hour passes) and with nobody else touching the image
\* directory: an entry goes stale when the manager removes its file or when
\* its read fails.  The request counter is private to the manager, so a
\* download here either fails uncharged or succeeds; the photo returned and
\* the session file play no part in the interleaving and are kept fixed.
Next ==
    \/ Manager({"search_fail", "ok"}, {"p1"}, {"open_error", "ok"}, {"ok"})
    \/ Getter
    \/ Configure(TwoTopics)
    \/ Start
    \/ Stop
    \/ StopReturns

Spec == Init /\ [][Next]_vars

\* the manager is between two cycles, or not running
BetweenCycles == m_pc \in {"nothread", "L282", "done", "crashed"}

\* no get_random_image call is in progress
NoCall == g_pc = "idle"

\* Operations run one at a time: a manager cycle runs while no call is in
\* progress, and a get_random_image call runs from start to end between two
\* manager cycles.
ManagerSeq(downloads, photos, writes, saves) ==
    \/ NoCall /\ L282
    \/ NoCall /\ L284
    \/ NoCall /\ L291
    \/ NoCall /\ L295
    \/ NoCall /\ L299
    \/ NoCall /\ L304
    \/ NoCall /\ L306
    \/ NoCall /\ L309
    \/ NoCall /\ L311
    \/ NoCall /\ L440
    \/ NoCall /\ L443
    \/ NoCall /\ L314
    \/ NoCall /\ L315
    \/ NoCall /\ L316
    \/ NoCall /\ L320
    \/ NoCall /\ L324(downloads, photos)
    \/ NoCall /\ L325
    \/ NoCall /\ L417
    \/ NoCall /\ L422(writes)
    \/ NoCall /\ L335
    \/ NoCall /\ L336
    \/ NoCall /\ L337
    \/ NoCall /\ L338
    \/ NoCall /\ L341(saves)

GetterSeq ==
    \/ BetweenCycles /\ G216
    \/ BetweenCycles /\ G221
    \/ BetweenCycles /\ G227
    \/ BetweenCycles /\ G462
    \/ BetweenCycles /\ G465
    \/ BetweenCycles /\ G230
    \/ BetweenCycles /\ G231
    \/ BetweenCycles /\ G232

\* Hours pass, others remove files from the directory, a download fails at
\* any of its three requests, files are written or not; the photo returned
\* and the session file play no part in the pool's bookkeeping and are kept
\* fixed.
NextSeq ==
    \/ ManagerSeq(DownloadOutcomes, {"p1"}, {"open_error", "ok"}, {"ok"})
    \/ GetterSeq
    \/ Tick
    \/ \E q \in DOMAIN files : ExternalDelete(q)
    \/ Configure(TwoTopics)
    \/ Start

SpecSeq == Init /\ [][NextSeq]_vars

\* The demo quota with a pool cap of DemoCap and the single topic "x", no
\* previous session, the manager running alone: hours pass and downloads
\* fail at any of their three requests.
InitDemo == InitWith(MAX_DEMO_REQUESTS_PER_HOUR, <<>>)

NextDemo ==
    \/ Manager(DownloadOutcomes, {"p1"}, {"ok"}, {"ok"})
    \/ Tick
    \/ Setup(OneTopic, DemoCap)
    \/ Start

SpecDemo == InitDemo /\ [][NextDemo]_vars

(***************************************************************************)
(* Properties                                                              *)
(***************************************************************************)
\* the derived counters agree with the per-topic lists
CountersAgree ==
    /\ num_images = SumLens(topics, images)
    /\ \A t \in Range(topics) : num_images_topic[t] = Len(images[t])

\* C1: when operations run one at a time, after every completed operation
\* (setup with its session restore, a manager cycle however it ended, a
\* get_random_image call) num_images is the sum of the list lengths and
\* num_images_topic[t] is the length of topic t's list.
C1_CountersMatchPool == (BetweenCycles /\ NoCall) => CountersAgree

\* C1 witness: a cycle that evicted one image and stored another has ended
C1_Witness ==
    /\ m_pc = "L282" /\ NoCall
    /\ h_evicted # NoImage
    /\ num_images > 0
    /\ num_images = h_start.num_images
    /\ images # h_start.images

\* C2: the request counter never exceeds the hourly quota.
C2_QuotaRespected == api_requests_counter <= max_api_requests_per_hour

\* the positions of manage() where a cycle only tests the quota and sleeps
PollingPcs == {"L282", "L284", "L291"}

\* C3: with the demo quota, once 25 successful download cycles have charged
\* 50 requests, the manager only tests the quota and sleeps (it is at no
\* connect, search, fetch or notify) for as long as the counter is not reset.
C3_NoCallWhenExhausted ==
    (/\ h_cycles = MAX_DEMO_REQUESTS_PER_HOUR \div REQUESTS_PER_IMAGE_DOWNLOAD
     /\ api_requests_counter = MAX_DEMO_REQUESTS_PER_HOUR)
        => m_pc \in PollingPcs

\* C3 witness: after the 25 cycles an hour has passed and the manager is
\* still asleep in the quota branch, the counter not yet reset
C3_Witness ==
    /\ h_cycles = MAX_DEMO_REQUESTS_PER_HOUR \div REQUESTS_PER_IMAGE_DOWNLOAD
    /\ api_requests_counter = MAX_DEMO_REQUESTS_PER_HOUR
    /\ m_pc = "L291"
    /\ t_since_first_down_image > SECONDS_IN_HOUR

\* the image files of a topic in the directory
TopicFiles(t) == {q \in DOMAIN files : q[1] = t}

\* C4: with cap 2 and the topic "x", after 3 download cycles, all
\* successful, the pool holds 2 images, 2 image files exist, and the file of
\* the image the third cycle evicted does not exist.
C4_ThreeCyclesCapTwo ==
    (h_cycles = 3 /\ m_pc = "L282")
        => /\ Len(images["x"]) = 2
           /\ Cardinality(TopicFiles("x")) = 2
           /\ h_evicted.file_path \notin DOMAIN files

\* every (topic, position) of the pool
PoolSlots ==
    UNION {{<<t, i>> : i \in DOMAIN images[t]} : t \in DOMAIN images}

\* C5: no two images of the pool have the same file_path.
C5_UniquePaths ==
    \A u, v \in PoolSlots :
        u # v => images[u[1]][u[2]].file_path # images[v[1]][v[2]].file_path

\* the manager is at line 325 with a failed download
DownloadFailed == m_pc = "L325" /\ m_image = NoImage

\* C6 as claimed: a cycle whose download failed leaves the pool and its
\* counters as they were at the start of the cycle.
C6_FailedCycleKeepsPool ==
    DownloadFailed => PoolNow(images, num_images, num_images_topic) = h_start

\* C6 as amended: a cycle whose download failed leaves the pool and its
\* counters as they were at the start of the cycle when it chose a growth
\* topic; when it chose an eviction topic the evicted image stays removed:
\* the topic's list is the start list without that image, num_images and the
\* topic's count are one lower, and nothing else differs.
C6_FailedCycleKeepsPoolButEviction ==
    DownloadFailed =>
        IF h_evicted = NoImage
            THEN PoolNow(images, num_images, num_images_topic) = h_start
            ELSE /\ InList(h_start.images[m_topic], h_evicted)
                 /\ Range(images[m_topic]) =
                        Range(h_start.images[m_topic]) \ {h_evicted}
                 /\ Len(images[m_topic]) = Len(h_start.images[m_topic]) - 1
                 /\ \A t \in DOMAIN images \ {m_topic} :
                        images[t] = h_start.images[t]
                 /\ num_images = h_start.num_images - 1
                 /\ num_images_topic =
                        [h_start.num_images_topic EXCEPT ![m_topic] = @ - 1]

\* C6 witness: the download failed in a cycle that had evicted an image
C6_Witness == DownloadFailed /\ h_evicted # NoImage

\* C7: the manager loop ends only because the stop flag was set, never
\* through an unhandled error.
C7_LoopEndsOnlyByStop ==
    m_pc \in {"done", "crashed"} => (m_pc = "done" /\ th_stop)

\* C8: once an interleaved get_random_image call and manager cycle have both
\* finished, num_images and num_images_topic[t] equal the list sizes.
C8_CountersSettle == (NoCall /\ BetweenCycles) => CountersAgree

\* C8 witness: a cycle that stored an image has ended, a call has purged
\* another image while the cycle ran, and both are over
C8_Witness ==
    /\ m_pc = "L282" /\ NoCall
    /\ g_result = ResNone
    /\ h_evicted = NoImage
    /\ num_images > 0
    /\ num_images = h_start.num_images
    /\ images # h_start.images

\* C9: every get_random_image call returns a record or None; none raises.
C9_GetNeverRaises == g_result.kind \in {"pending", "None", "image"}

\* C10: a get_random_image call that runs alone and finds its image's file
\* gone returns None, removes that one image from its topic's list, lowers
\* num_images and the topic's count by exactly 1 and changes nothing else.
C10_PurgeRemovesOne ==
    [][(g_pc = "G232" /\ g_pc' = "idle") =>
          /\ g_result'.kind = "None"
          /\ InList(h_call.images[g_topic], g_image)
          /\ Range(images'[g_topic]) = Range(h_call.images[g_topic]) \ {g_image}
          /\ Len(images'[g_topic]) = Len(h_call.images[g_topic]) - 1
          /\ \A t \in DOMAIN images \ {g_topic} : images'[t] = h_call.images[t]
          /\ num_images' = h_call.num_images - 1
          /\ num_images_topic' =
                 [h_call.num_images_topic EXCEPT ![g_topic] = @ - 1]]_vars

\* C10 witness: the call is about to return after purging an image whose
\* file is gone from the directory, while another image stays in the pool
C10_Witness ==
    /\ g_pc = "G232"
    /\ g_image.file_path \notin DOMAIN files
    /\ h_call.num_images = 2
    /\ num_images = 1

\* C11: when remove_image_file deletes nothing for the image chosen for
\* eviction (its file is missing, or the delete raises), the cycle ends
\* there: the manager is back at the top of the loop without a download
\* attempt, and the pool, num_images, num_images_topic and the request
\* counter are what they were at the top of the cycle.
C11_FailedEvictionChangesNothing ==
    [][(m_pc = "L443" /\ m_pc' # "L443" /\ files' = files) =>
          /\ m_pc' = "L282"
          /\ PoolNow(images', num_images', num_images_topic') = h_start
          /\ api_requests_counter' = h_counter]_vars

\* C11 witness: the manager is about to delete the file of the image it
\* chose, and the file is no longer in the directory
C11_Witness ==
    /\ m_pc = "L443"
    /\ m_image # NoImage
    /\ m_image.file_path \notin DOMAIN files

\* the positions of manage() inside a sleep: the quota poll (line 291), the
\* connect retry (line 299), the wait between downloads (line 306)
SleepPcs == {"L291", "L299", "L306"}

\* C12: once the stop flag is set the manager starts no new eviction and no
\* new download: when a sleep ends with the flag set, the manager goes to the
\* loop test and exits, whichever of the three sleeps it was.
C12_StopSeenAfterEverySleep ==
    [][(th_stop /\ m_pc \in SleepPcs /\ m_pc' # m_pc) =>
          m_pc' \in {"L282", "done"}]_vars

\* a custom quota that is not a multiple of REQUESTS_PER_IMAGE_DOWNLOAD
OddQuota == SmallQuota + 1

\* The manager thread alone, from an empty directory, with a custom quota,
\* even or odd; hours pass, downloads fail at any of their three requests,
\* and stop() may be called.  The thread keeps being scheduled (every sleep
\* and every network call returns), time keeps advancing, and join() returns
\* once the thread has ended.
InitAlone == \E quota \in {SmallQuota, OddQuota} : InitWith(quota, <<>>)

ManagerAlone == Manager(DownloadOutcomes, {"p1"}, {"open_error", "ok"}, {"ok"})

NextAlone ==
    \/ ManagerAlone
    \/ Tick
    \/ Configure(TwoTopics)
    \/ Start
    \/ Stop
    \/ StopReturns

SpecAlone ==
    /\ InitAlone
    /\ [][NextAlone]_vars
    /\ WF_vars(ManagerAlone)
    /\ WF_vars(Tick)
    /\ WF_vars(StopReturns)

\* C13: after stop() has set the flag on a running manager the loop
\* eventually exits; it exits only at the loop test, so the iteration in
\* progress runs to its end; stop() has returned only when the loop has
\* exited, and from then on the pool, the counters, the request counter and
\* the image files do not change.
C13_StopEndsLoop ==
    /\ (s_pc = "joining") ~> (m_pc = "done")
    /\ [][(m_pc' = "done" /\ m_pc # "done") => m_pc = "L282"]_vars
    /\ [](s_pc = "returned" => m_pc = "done")
    /\ [][s_pc = "returned" =>
             UNCHANGED << poolVars, api_requests_counter, files >>]_vars

\* C13 witness: stop() has set the flag and waits in join() while the
\* manager is still storing the image of the iteration in progress
C13_Witness == s_pc = "joining" /\ th_stop /\ m_pc = "L335"

\* the path the manager is writing (line 422) or deleting (line 443), and the
\* path a get_random_image caller is reading (line 465)
ManagerPath == IF m_pc \in {"L422", "L443"} THEN m_image.file_path ELSE NoPath
GetterPath == IF g_pc = "G465" THEN g_image.file_path ELSE NoPath

\* C14: the file operations on a path are mutually exclusive: no read of a
\* path by get_random_image overlaps a write or a delete of the same path by
\* the manager.
C14_FileOpsExclusive == GetterPath # NoPath => GetterPath # ManagerPath

\* C15: whenever the request counter has reached the hourly quota, then, as
\* long as stop is not requested, the loop eventually resets the counter
\* to 0.
C15_QuotaEventuallyResets ==
    (api_requests_counter >= max_api_requests_per_hour /\ ~th_stop)
        ~> (api_requests_counter = 0 \/ th_stop)

\* the most images per topic in a saved pool
MaxSaved == 2

\* the photos of one topic's list, in list order
PhotoLists == UNION {[1..n -> Photos] : n \in 0..MaxSaved}

TopicIndex(tps, t) == CHOOSE i \in 1..Len(tps) : tps[i] = t

\* a pool as manage() builds it: topic t's i-th image holds photo f[t][i]
\* and its own raw object
SavedPool(tps, f) ==
    [t \in Range(tps) |->
        [i \in 1..Len(f[t]) |->
            Img(f[t][i], FilePath(t, i - 1),
                (TopicIndex(tps, t) - 1) * MaxSaved + i)]]

\* A run has saved the snapshot of its pool (save_images_data_session on a
\* pool of N images across K topics) and ended; a new process is constructed
\* on the same directory, is set up with some topic list and cap, and serves
\* get_random_image calls.
InitSession ==
    \E tps \in {OneTopic, TwoTopics} :
        \E f \in [Range(tps) -> PhotoLists] :
            InitWith(SmallQuota, <<Snapshot(tps, SavedPool(tps, f))>>)

NextSession ==
    \/ Configure(OneTopic)
    \/ Configure(TwoTopics)
    \/ Getter

SpecSession == InitSession /\ [][NextSession]_vars

\* C16: restoring a saved snapshot yields the saved topics and, per topic,
\* the saved images in the saved order (same id, attribution and file_path),
\* num_images equal to the number of saved images, num_images_topic equal to
\* the list lengths, and a lock for every restored file_path.
C16_SaveRestoreRoundTrip ==
    [][(~setup_done /\ setup_done') =>
          LET saved == session[1].images IN
          /\ Range(topics') = DOMAIN saved
          /\ Len(topics') = Cardinality(DOMAIN saved)
          /\ DOMAIN images' = DOMAIN saved
          /\ \A t \in DOMAIN saved :
                /\ Len(images'[t]) = Len(saved[t])
                /\ \A i \in 1..Len(saved[t]) :
                      /\ images'[t][i].id = saved[t][i].id
                      /\ images'[t][i].attribution = saved[t][i].attribution
                      /\ images'[t][i].file_path = saved[t][i].file_path
                /\ num_images_topic'[t] = Len(saved[t])
          /\ DOMAIN num_images_topic' = DOMAIN saved
          /\ num_images' = Cardinality(AllImages(saved))
          /\ \A i \in AllImages(saved) :
                i.file_path \in DOMAIN file_locks']_vars

\* C16 witness: a snapshot of more images than one topic holds, across two
\* topics, has been restored
C16_Witness ==
    /\ setup_done
    /\ Len(topics) = 2
    /\ num_images > MaxSaved
    /\ images = session[1].images

\* C17: a download_image call that returns an image raises the request
\* counter by exactly 2; one that fails raises it by 0, 1 or 2; no other
\* step changes the counter except the reset to 0 in the quota branch.
C17_ChargePerDownload ==
    [][/\ (m_pc = "L324" /\ m_pc' = "L325") =>
              IF m_image' # NoImage
                  THEN api_requests_counter' =
                           api_requests_counter + REQUESTS_PER_IMAGE_DOWNLOAD
                  ELSE api_requests_counter' - api_requests_counter
                           \in 0..REQUESTS_PER_IMAGE_DOWNLOAD
       /\ (m_pc # "L324" /\ api_requests_counter' # api_requests_counter) =>
              /\ m_pc = "L284" /\ m_pc' = "L291"
              /\ api_requests_counter' = 0]_vars

\* C17 witness: a download has failed after charging one request, in a cycle
\* that started with requests already charged
C17_Witness ==
    /\ m_pc = "L325"
    /\ m_image = NoImage
    /\ h_counter > 0
    /\ api_requests_counter = h_counter + 1

\* the manager is at line 325 with a downloaded image
DownloadSucceeded == m_pc = "L325" /\ m_image # NoImage

\* C18: the request counter is reset to 0 only by a cycle that finds the
\* quota exhausted and more than 3600 s elapsed since the window start; the
\* window start is stamped by the first successful download after
\* construction or after a reset, by that download only, and no other
\* download changes it.
C18_WindowDiscipline ==
    [][/\ (api_requests_counter' = 0 /\ api_requests_counter # 0) =>
              /\ m_pc = "L284"
              /\ api_requests_counter = max_api_requests_per_hour
              /\ t_since_first_down_image > SECONDS_IN_HOUR
       /\ (first_image_in_this_hour' /\ ~first_image_in_this_hour) =>
              (m_pc = "L284" /\ api_requests_counter' = 0)
       /\ (DownloadSucceeded /\ m_pc' # m_pc /\ first_image_in_this_hour) =>
              (t_since_first_down_image' = 0 /\ ~first_image_in_this_hour')
       /\ (~first_image_in_this_hour' /\ first_image_in_this_hour) =>
              DownloadSucceeded
       /\ (t_since_first_down_image' # t_since_first_down_image) =>
              \/ t_since_first_down_image' > t_since_first_down_image
              \/ DownloadSucceeded /\ first_image_in_this_hour]_vars

\* C18 witness: a cycle has just reset the counter of an exhausted window
\* that was more than an hour old
C18_Witness ==
    /\ m_pc = "L291"
    /\ h_counter = max_api_requests_per_hour
    /\ api_requests_counter = 0
    /\ first_image_in_this_hour
    /\ t_since_first_down_image > SECONDS_IN_HOUR

\* C19: the pool never holds more images than the cap:
\* num_images <= max_images_per_hour.
C19_PoolWithinCap == 2 * num_images <= max_images_per_hour_x2

\* C20: starting from an empty pool, after any number of manager cycles
\* (growth, eviction with replacement, failed downloads and failed writes),
\* the image counts of any two topics differ by at most 1.
C20_TopicsBalanced ==
    BetweenCycles =>
        \A t1, t2 \in Range(topics) : Len(images[t1]) <= Len(images[t2]) + 1

\* C20 witness: a cycle at the cap evicted an image and its download failed,
\* leaving one topic an image short of the other
C20_Witness ==
    /\ m_pc = "L282"
    /\ h_evicted # NoImage
    /\ num_images = h_start.num_images - 1
    /\ num_images > 0

(***************************************************************************)
(* The topic balancer called on its own                                    *)
(***************************************************************************)
\* the most images one topic holds in the pool a previous run has saved
MaxCount == 3

ThreeTopics == <<"a", "b", "c">>
NoTopics == <<>>
TopicLists == {NoTopics, OneTopic, TwoTopics, ThreeTopics}

\* a pool as manage() builds it, holding n[t] images of topic t
CountedPool(tps, n) ==
    [t \in Range(tps) |->
        [i \in 1..n[t] |->
            Img("p1", FilePath(t, i - 1),
                (TopicIndex(tps, t) - 1) * MaxCount + i)]]

\* the snapshots a previous run can have saved: manage() saves after it has
\* appended an image, so a snapshot holds at least one image
CountedSessions ==
    UNION {{<<Snapshot(tps, CountedPool(tps, n))>> :
                n \in {m \in [Range(tps) -> 0..MaxCount] :
                          \E t \in Range(tps) : m[t] > 0}} :
           tps \in TopicLists \ {NoTopics}}

\* a caller calls get_topic_less_num_images()
CallTopicLess ==
    /\ c_call' = "less"
    /\ c_topic' = get_topic_less_num_images(topics, images,
                                            max_images_per_hour_x2)
    /\ UNCHANGED << configVars, stopVars, connected, rateVars, poolVars,
                    file_locks, files, session, m_pc, mgrLocals, getVars,
                    histVars >>

\* a caller calls get_topic_more_num_images(); choice() raises IndexError on
\* an empty list (line 514)
CallTopicMore ==
    /\ IF get_topic_more_num_images(topics, images) = {}
           THEN /\ c_call' = "more_raised"
                /\ c_topic' = ""
           ELSE /\ c_call' = "more"
                /\ c_topic' \in get_topic_more_num_images(topics, images)
    /\ UNCHANGED << configVars, stopVars, connected, rateVars, poolVars,
                    file_locks, files, session, m_pc, mgrLocals, getVars,
                    histVars >>

\* A process is constructed on a directory where a previous run may have
\* saved its pool, is set up with some topic list and cap, and its caller
\* asks the balancer for the topic to grow and the topic to shrink; no
\* manager thread runs.
InitBalancer ==
    \E quota \in {SmallQuota, OddQuota} :
        \E sess \in {<<>>} \cup CountedSessions : InitWith(quota, sess)

NextBalancer ==
    \/ \E tps \in TopicLists : Configure(tps)
    \/ CallTopicLess
    \/ CallTopicMore

SpecBalancer == InitBalancer /\ [][NextBalancer]_vars

\* the topics holding the fewest images, and the last of them in list order
FewestTopics == {t \in Range(topics) :
                    \A u \in Range(topics) : Len(images[t]) <= Len(images[u])}
LastFewest ==
    topics[CHOOSE i \in 1..Len(topics) :
               /\ topics[i] \in FewestTopics
               /\ \A j \in (i + 1)..Len(topics) : topics[j] \notin FewestTopics]

\* C21: get_topic_less_num_images returns, for every non-empty topic list
\* and every assignment of counts, the last topic in list order among those
\* whose count is the minimum, and returns "" exactly when the list is empty.
C21_FewestLastWins ==
    [][(c_call' = "less" /\ UNCHANGED << configVars, poolVars >>) =>
          IF topics = <<>> THEN c_topic' = "" ELSE c_topic' = LastFewest]_vars

\* the topics holding the most images
MostTopics == {t \in Range(topics) :
                  \A u \in Range(topics) : Len(images[u]) <= Len(images[t])}

\* C22: get_topic_more_num_images returns only a topic whose count is the
\* maximum over all topics, and every topic tied at the maximum is a
\* possible result.
C22_MostAnyTied ==
    /\ [][(c_call' = "more" /\ UNCHANGED << configVars, poolVars >>) =>
             c_topic' \in MostTopics]_vars
    /\ [](topics # <<>> =>
             get_topic_more_num_images(topics, images) = MostTopics)

\* C22 witness: for counts {a:3, b:3, c:1} the call has returned "b"
C22_Witness ==
    /\ c_call = "more"
    /\ c_topic = "b"
    /\ topics = ThreeTopics
    /\ Len(images["a"]) = MaxCount
    /\ Len(images["b"]) = MaxCount
    /\ Len(images["c"]) = 1

\* the manager is inside download_image, where the search, fetch and notify
\* requests are made
RequestPcs == {"L324"}

\* C23: the manager makes no search, fetch or notify request while it is
\* not connected; a cycle whose connect fails sleeps the retry interval and
\* goes back to the loop test, and the next cycle tries to connect again; a
\* cycle whose connect succeeds goes on to the wait and the eviction/download
\* step in the same cycle; once connected, the manager stays connected.
C23_ConnectBeforeRequests ==
    /\ [](m_pc \in RequestPcs => connected)
    /\ [][(api_requests_counter' > api_requests_counter) => connected]_vars
    /\ [][(m_pc = "L295" /\ m_pc' # m_pc) =>
             m_pc' = IF connected' THEN "L304" ELSE "L299"]_vars
    /\ [][(m_pc = "L299" /\ m_pc' # m_pc) =>
             /\ m_pc' = "L282"
             /\ UNCHANGED << connected, poolVars, api_requests_counter >>]_vars
    /\ [][(m_pc = "L284" /\ ~connected /\ m_pc' # m_pc) => m_pc' = "L295"]_vars
    /\ [][(m_pc \in {"L304", "L306"} /\ m_pc' # m_pc) =>
             m_pc' \in {"L306", "L309"}]_vars
    /\ [][connected => connected']_vars

\* C23 witness: a cycle's connect has failed and the manager sleeps the
\* retry interval, a request having been charged in no cycle so far
C23_Witness ==
    /\ m_pc = "L299"
    /\ ~connected
    /\ api_requests_counter = 0
    /\ num_images = 0

(***************************************************************************)
(* File names reused                                                       *)
(***************************************************************************)
\* The single topic "x" with the small quota and the cap derived from it, no
\* previous session: manager cycles and get_random_image calls run one at a
\* time, hours pass, every request and every write succeeds, and the random
\* search returns any of the photos.
InitReuse == InitWith(SmallQuota, <<>>)

NextReuse ==
    \/ ManagerSeq({"ok"}, Photos, {"ok"}, {"ok"})
    \/ GetterSeq
    \/ Tick
    \/ Setup(OneTopic, 0)
    \/ Start

SpecReuse == InitReuse /\ [][NextReuse]_vars

\* C24: every record get_random_image returns is consistent: its bytes are
\* the bytes downloaded for the photo whose id and attribution it carries.
C24_RecordConsistent ==
    g_result.kind = "image" =>
        /\ g_result.image = BytesOf(g_result.id)
        /\ g_result.attribution = Attribution(g_result.id)

====
